---- MODULE Spec2Model ----
(***************************************************************************)
(* State-machine model of the 3D ping-pong game of src/game.py: the ball   *)
(* physics (Ball), the paddles (Paddle) and the match rules (Game).        *)
(*                                                                         *)
(* Numbers.  The program computes in floating point; the model is in fixed *)
(* point.  Lengths are in 1/1000 of a world unit, velocities in 1/1000     *)
(* unit per second, spin likewise, and dt is in milliseconds (the program  *)
(* gets dt as clock.tick(...) / 1000.0, a whole number of milliseconds).   *)
(* Products are divided back with DivT, which truncates toward zero.       *)
(*                                                                         *)
(* Left out: rendering, camera, FPS display, particles, the ball trail and *)
(* the paddles' tilt / target_tilt (all read by the renderer only).        *)
(***************************************************************************)
EXTENDS Integers, Sequences, FiniteSets, TLC

----------------------------------------------------------------------------
(* Program constants (src/game.py, lines 52-75), scaled by 1000.           *)

TABLE_HALF_WIDTH == 5000
TABLE_HALF_DEPTH == 8000
TABLE_HEIGHT == 0
NET_HEIGHT == 600
PADDLE_WIDTH == 1200
PADDLE_HEIGHT == 1600
PADDLE_DEPTH == 150
PADDLE_Z_OFFSET == 6500
BALL_RADIUS == 150
GRAVITY == -15000
POINTS_TO_WIN == 11
WIN_BY == 2
DEUCE_POINT == 10
PADDLE_SPEED == 9000
MAX_SPEED == 20000

----------------------------------------------------------------------------
(* Bounds of the model.                                                    *)

\* total points a match of Spec may reach (the deuce phase is unbounded)
MaxTotal == 3
\* total points a match of SpecMatch may reach: (13,11) is total 24
MaxTotalMatch == 24
\* paddle hits followed within one rally
MaxHits == 2

\* paddle hits followed within one rally of SpecRally
MaxHitsRally == 22

\* how far from the centre player 2's paddle goes in SpecChase
MaxReach == 900

\* dt values (ms) the clock delivers: a zero-length frame, a slow frame,
\* a one-second stall
DtSet == {0, 500, 1000}
\* dt values (ms) of SpecRally: a zero-length frame and a frame at 20 FPS
DtRally == {0, 50}
\* keys held by a player: -1 (A / LEFT), 0 (none), 1 (D / RIGHT)
Keys == {-1, 0, 1}
\* the random draws of Ball.reset as <<8*sin(angle), 8*cos(angle), vy>>:
\* angle 0, angle 5 degrees and angle 0.5 degrees, vy 1.0
ServeDraws == {<<0, 8000, 1000>>, <<697, 7970, 1000>>, <<70, 8000, 1000>>}
\* the draw written where no Ball.reset is called and none is used
FirstDraw == <<0, 8000, 1000>>

----------------------------------------------------------------------------
(* Arithmetic helpers.                                                     *)

Abs(a) == IF a < 0 THEN -a ELSE a

\* a / b truncated toward zero, b > 0
DivT(a, b) == IF a >= 0 THEN a \div b ELSE -((-a) \div b)

Max(a, b) == IF a > b THEN a ELSE b
Min(a, b) == IF a < b THEN a ELSE b

RECURSIVE SqrtSearch(_, _, _)
\* largest r in lo..hi with r*r <= n (lo*lo <= n < (hi+1)*(hi+1))
SqrtSearch(n, lo, hi) ==
    IF lo >= hi THEN lo
    ELSE CHOOSE r \in {IF mid * mid <= n THEN SqrtSearch(n, mid, hi)
                                          ELSE SqrtSearch(n, lo, mid - 1) :
                         mid \in {(lo + hi + 1) \div 2}} : TRUE

\* floor of the square root of n, for n below 2^31
ISqrt(n) == SqrtSearch(n, 0, 46340)

----------------------------------------------------------------------------
(* State.                                                                  *)

VARIABLES
    score_p1, score_p2, total_points,   \* Game scores
    current_server,                     \* 1 or 2
    game_over, winner,                  \* winner: "None" or the winner's name
    paused, waiting_for_serve,
    ball,                               \* Ball: x y z vx vy vz spin_x spin_z table_bounces
    p1x, p2x,                           \* Paddle.x of player1 / player2
    hits,                               \* history: paddle hits since the last Ball.reset
    half,                               \* history: consecutive bounces per half <<p1 half, p2 half>>
    ev,                                 \* history: the operation that acted last
    tk                                  \* history: what the last tick did

vars == <<score_p1, score_p2, total_points, current_server, game_over, winner,
          paused, waiting_for_serve, ball, p1x, p2x, hits, half, ev, tk>>

\* the Game fields Game.update and the commands work on
Game == [score_p1 |-> score_p1, score_p2 |-> score_p2, total_points |-> total_points,
         current_server |-> current_server, game_over |-> game_over, winner |-> winner,
         paused |-> paused, waiting_for_serve |-> waiting_for_serve, ball |-> ball]

----------------------------------------------------------------------------
(* Ball.                                                                   *)

\* Ball.reset serving toward the server's own side
Ball_reset_toward_server(server, d) ==
    [x |-> 0, y |-> NET_HEIGHT + 1000, z |-> 0,
     vx |-> d[1], vy |-> d[3],
     vz |-> (IF server = 1 THEN -1 ELSE 1) * d[2],
     spin_x |-> 0, spin_z |-> 0, table_bounces |-> 0]

\* Ball.reset(server) with the random draws d = <<vx, |vz|, vy>>
Ball_reset(server, d) ==
    [x |-> 0, y |-> NET_HEIGHT + 1000, z |-> 0,
     vx |-> d[1], vy |-> d[3],
     vz |-> (IF server = 1 THEN 1 ELSE -1) * d[2],
     spin_x |-> 0, spin_z |-> 0, table_bounces |-> 0]

\* Ball.update(dt)
Ball_update(b, dt) ==
    LET vy1 == b.vy + DivT(GRAVITY * dt, 1000)
    IN [b EXCEPT !.vy = vy1,
                 !.x = b.x + DivT(b.vx * dt, 1000),
                 !.y = b.y + DivT(vy1 * dt, 1000),
                 !.z = b.z + DivT(b.vz * dt, 1000),
                 !.vx = b.vx + DivT(b.spin_x * dt, 2000),
                 !.vz = b.vz + DivT(b.spin_z * dt, 2000)]

\* the condition under which Ball.bounce_table returns True
TableBounces(b) ==
    /\ b.y < TABLE_HEIGHT + BALL_RADIUS
    /\ b.vy < 0
    /\ Abs(b.x) < TABLE_HALF_WIDTH
    /\ Abs(b.z) < TABLE_HALF_DEPTH

\* bounce_table without the test of the table's ends
bounce_table_beyond_ends(b) ==
    IF b.y < TABLE_HEIGHT + BALL_RADIUS /\ b.vy < 0 /\ Abs(b.x) < TABLE_HALF_WIDTH
    THEN [b EXCEPT !.y = TABLE_HEIGHT + BALL_RADIUS,
                   !.vy = DivT((-b.vy) * 3, 4),
                   !.table_bounces = b.table_bounces + 1]
    ELSE b

\* Ball.bounce_table()
bounce_table(b) ==
    IF TableBounces(b)
    THEN [b EXCEPT !.y = TABLE_HEIGHT + BALL_RADIUS,
                   !.vy = DivT((-b.vy) * 3, 4),
                   !.table_bounces = b.table_bounces + 1]
    ELSE b

\* PaddleHits without the vertical overlap
PaddleHits_any_height(b, pz, px) ==
    LET paddle_face_z == IF pz > 0 THEN pz - PADDLE_DEPTH \div 2 ELSE pz + PADDLE_DEPTH \div 2
        moving_toward == IF pz > 0 THEN b.vz > 0 ELSE b.vz < 0
        ball_edge     == IF pz > 0 THEN b.z + BALL_RADIUS ELSE b.z - BALL_RADIUS
    IN /\ moving_toward
       /\ \/ pz > 0 /\ ball_edge >= paddle_face_z
          \/ pz < 0 /\ ball_edge <= paddle_face_z
       /\ Abs(b.x - px) <= PADDLE_WIDTH \div 2 + BALL_RADIUS

\* the condition under which Ball.bounce_paddle(paddle) returns True, for the
\* paddle at depth pz with centre px
PaddleHits(b, pz, px) ==
    LET paddle_face_z == IF pz > 0 THEN pz - PADDLE_DEPTH \div 2 ELSE pz + PADDLE_DEPTH \div 2
        moving_toward == IF pz > 0 THEN b.vz > 0 ELSE b.vz < 0
        ball_edge     == IF pz > 0 THEN b.z + BALL_RADIUS ELSE b.z - BALL_RADIUS
    IN /\ moving_toward
       /\ \/ pz > 0 /\ ball_edge >= paddle_face_z
          \/ pz < 0 /\ ball_edge <= paddle_face_z
       /\ Abs(b.x - px) <= PADDLE_WIDTH \div 2 + BALL_RADIUS
       /\ Abs(b.y - PADDLE_HEIGHT \div 2) <= PADDLE_HEIGHT \div 2 + BALL_RADIUS

\* bounce_paddle with the spin turned against the offset
bounce_paddle_spin_reversed(b, pz, px) ==
    IF PaddleHits(b, pz, px)
    THEN LET paddle_face_z == IF pz > 0 THEN pz - PADDLE_DEPTH \div 2
                              ELSE pz + PADDLE_DEPTH \div 2
         IN [b EXCEPT !.z = IF pz > 0 THEN paddle_face_z - BALL_RADIUS - 10
                            ELSE paddle_face_z + BALL_RADIUS + 10,
                      !.vz = DivT((-b.vz) * 105, 100),
                      !.vx = b.vx + DivT((b.x - px) * 35, 6),
                      !.spin_x = DivT((px - b.x) * 10, 3),
                      !.vy = b.vy + DivT((b.y - PADDLE_HEIGHT \div 2) * 15, 8),
                      !.table_bounces = 0]
    ELSE b

\* bounce_paddle that speeds the ball up without turning it round
bounce_paddle_no_reflect(b, pz, px) ==
    IF PaddleHits(b, pz, px)
    THEN LET paddle_face_z == IF pz > 0 THEN pz - PADDLE_DEPTH \div 2
                              ELSE pz + PADDLE_DEPTH \div 2
         IN [b EXCEPT !.z = IF pz > 0 THEN paddle_face_z - BALL_RADIUS - 10
                            ELSE paddle_face_z + BALL_RADIUS + 10,
                      !.vz = DivT(b.vz * 105, 100),
                      !.vx = b.vx + DivT((b.x - px) * 35, 6),
                      !.spin_x = DivT((b.x - px) * 10, 3),
                      !.vy = b.vy + DivT((b.y - PADDLE_HEIGHT \div 2) * 15, 8),
                      !.table_bounces = 0]
    ELSE b

\* Ball.bounce_paddle(paddle, particles)
bounce_paddle(b, pz, px) ==
    IF PaddleHits(b, pz, px)
    THEN LET paddle_face_z == IF pz > 0 THEN pz - PADDLE_DEPTH \div 2
                              ELSE pz + PADDLE_DEPTH \div 2
         IN [b EXCEPT !.z = IF pz > 0 THEN paddle_face_z - BALL_RADIUS - 10
                            ELSE paddle_face_z + BALL_RADIUS + 10,
                      !.vz = DivT((-b.vz) * 105, 100),
                      \* offset_x * 3.5 = (x - px) / 600 * 3.5
                      !.vx = b.vx + DivT((b.x - px) * 35, 6),
                      \* offset_x * 2.0
                      !.spin_x = DivT((b.x - px) * 10, 3),
                      \* offset_y * 1.5 = (y - py) / 800 * 1.5
                      !.vy = b.vy + DivT((b.y - PADDLE_HEIGHT \div 2) * 15, 8),
                      !.table_bounces = 0]
    ELSE b

\* Ball.check_out_of_bounds()
check_out_of_bounds(b) ==
    \/ Abs(b.x) > TABLE_HALF_WIDTH + 2000
    \/ b.y < -5000

----------------------------------------------------------------------------
(* Paddle.                                                                 *)

\* move_horizontal clamping at the table's edge
move_horizontal_to_table_edge(x, dx, dt) ==
    LET limit == TABLE_HALF_WIDTH
    IN Max(-limit, Min(limit, x + DivT(dx * PADDLE_SPEED * dt, 1000)))

\* Paddle.move_horizontal(dx, dt) on a paddle at x
move_horizontal(x, dx, dt) ==
    LET limit == TABLE_HALF_WIDTH - PADDLE_WIDTH \div 2 - 200
    IN Max(-limit, Min(limit, x + DivT(dx * PADDLE_SPEED * dt, 1000)))

----------------------------------------------------------------------------
(* Game: rules.                                                            *)

\* determine_server with the deuce rule as soon as one player is at DEUCE_POINT
determine_server_either(g) ==
    IF g.score_p1 >= DEUCE_POINT \/ g.score_p2 >= DEUCE_POINT
    THEN (IF g.total_points % 2 = 0 THEN 1 ELSE 2)
    ELSE (IF (g.total_points \div 2) % 2 = 0 THEN 1 ELSE 2)

\* determine_server without the deuce rule
determine_server_no_deuce(g) ==
    IF (g.total_points \div 2) % 2 = 0 THEN 1 ELSE 2

\* Game.determine_server()
determine_server(g) ==
    IF g.score_p1 >= DEUCE_POINT /\ g.score_p2 >= DEUCE_POINT
    THEN (IF g.total_points % 2 = 0 THEN 1 ELSE 2)
    ELSE (IF (g.total_points \div 2) % 2 = 0 THEN 1 ELSE 2)

\* check_win without the WIN_BY margin
check_win_no_margin(g) ==
    IF g.score_p1 >= POINTS_TO_WIN
    THEN [g EXCEPT !.game_over = TRUE, !.winner = "Player 1 (Red)"]
    ELSE IF g.score_p2 >= POINTS_TO_WIN
    THEN [g EXCEPT !.game_over = TRUE, !.winner = "Player 2 (Blue)"]
    ELSE g

\* check_win with the threshold one point late
check_win_at_twelve(g) ==
    IF g.score_p1 >= POINTS_TO_WIN + 1 /\ g.score_p1 - g.score_p2 >= WIN_BY
    THEN [g EXCEPT !.game_over = TRUE, !.winner = "Player 1 (Red)"]
    ELSE IF g.score_p2 >= POINTS_TO_WIN + 1 /\ g.score_p2 - g.score_p1 >= WIN_BY
    THEN [g EXCEPT !.game_over = TRUE, !.winner = "Player 2 (Blue)"]
    ELSE g

\* Game.check_win()
check_win(g) ==
    IF g.score_p1 >= POINTS_TO_WIN /\ g.score_p1 - g.score_p2 >= WIN_BY
    THEN [g EXCEPT !.game_over = TRUE, !.winner = "Player 1 (Red)"]
    ELSE IF g.score_p2 >= POINTS_TO_WIN /\ g.score_p2 - g.score_p1 >= WIN_BY
    THEN [g EXCEPT !.game_over = TRUE, !.winner = "Player 2 (Blue)"]
    ELSE g

\* NextServe without the Ball.reset
NextServe_keeps_ball(g, d) ==
    IF ~g.game_over
    THEN [g EXCEPT !.current_server = determine_server(g),
                   !.waiting_for_serve = TRUE]
    ELSE g

\* Game.award_point, "if not self.game_over": the next server serves
NextServe(g, d) ==
    IF ~g.game_over
    THEN [g EXCEPT !.current_server = determine_server(g),
                   !.waiting_for_serve = TRUE,
                   !.ball = Ball_reset(determine_server(g), d)]
    ELSE g

\* award_point that leaves total_points as it is for player 2's points
award_point_p2_untotalled(g, player, d) ==
    NextServe(check_win(IF player = 1
                        THEN [g EXCEPT !.score_p1 = g.score_p1 + 1,
                                       !.total_points = g.total_points + 1]
                        ELSE [g EXCEPT !.score_p2 = g.score_p2 + 1]), d)

\* Game.award_point(player); d is the random draw of the Ball.reset it may call
award_point(g, player, d) ==
    NextServe(check_win(IF player = 1
                        THEN [g EXCEPT !.score_p1 = g.score_p1 + 1,
                                       !.total_points = g.total_points + 1]
                        ELSE [g EXCEPT !.score_p2 = g.score_p2 + 1,
                                       !.total_points = g.total_points + 1]), d)

\* reset_match that leaves waiting_for_serve as it is
reset_match_keeps_waiting(g, d) ==
    [g EXCEPT !.score_p1 = 0, !.score_p2 = 0, !.total_points = 0,
              !.current_server = 1, !.game_over = FALSE, !.winner = "None",
              !.paused = FALSE,
              !.ball = Ball_reset(1, d)]

\* reset_match that leaves paused as it is
reset_match_keeps_pause(g, d) ==
    [g EXCEPT !.score_p1 = 0, !.score_p2 = 0, !.total_points = 0,
              !.current_server = 1, !.game_over = FALSE, !.winner = "None",
              !.waiting_for_serve = TRUE,
              !.ball = Ball_reset(1, d)]

\* Game.reset_match(); d is the random draw of Ball.reset
reset_match(g, d) ==
    [g EXCEPT !.score_p1 = 0, !.score_p2 = 0, !.total_points = 0,
              !.current_server = 1, !.game_over = FALSE, !.winner = "None",
              !.paused = FALSE, !.waiting_for_serve = TRUE,
              !.ball = Ball_reset(1, d)]

\* toggle_pause without the game_over test
toggle_pause_always(g) == [g EXCEPT !.paused = ~g.paused]

\* Game.toggle_pause()
toggle_pause(g) ==
    IF ~g.game_over THEN [g EXCEPT !.paused = ~g.paused] ELSE g

\* Game.run, KEYDOWN K_SPACE: the serve trigger
serve_key(g) ==
    IF g.waiting_for_serve /\ ~g.game_over /\ ~g.paused
    THEN [g EXCEPT !.waiting_for_serve = FALSE]
    ELSE g

\* handle_input without the paused test
handle_input_while_paused(g, x, k, dt) ==
    IF g.game_over THEN x
    ELSE IF k = 0 THEN x
    ELSE move_horizontal(x, k, dt)

\* Game.handle_input(dt) for one paddle at x with key k held
handle_input(g, x, k, dt) ==
    IF g.paused \/ g.game_over THEN x
    ELSE IF k = 0 THEN x
    ELSE move_horizontal(x, k, dt)

----------------------------------------------------------------------------
(* Game.update.                                                            *)

\* Game.update, "Update ball" to "Check paddle collisions": integration, the
\* table bounce, then player 1's paddle and player 2's paddle
Collide(b, x1, x2, dt) ==
    LET b1 == Ball_update(b, dt)
        b2 == bounce_table(b1)
        b3 == bounce_paddle(b2, -PADDLE_Z_OFFSET, x1)
    IN bounce_paddle(b3, PADDLE_Z_OFFSET, x2)

\* Scoring with the out-of-bounds check as a second "if" instead of "elif"
Scoring_no_elif(g, d) ==
    LET g1 == IF g.ball.z > TABLE_HALF_DEPTH + 1500 THEN award_point(g, 1, d)
              ELSE IF g.ball.z < -TABLE_HALF_DEPTH - 1500 THEN award_point(g, 2, d)
              ELSE g
    IN IF check_out_of_bounds(g.ball)
       THEN (IF g.ball.vz > 0 THEN award_point(g1, 1, d) ELSE award_point(g1, 2, d))
       ELSE g1

\* Scoring with the two ends exchanged
Scoring_ends_swapped(g, d) ==
    IF g.ball.z > TABLE_HALF_DEPTH + 1500 THEN award_point(g, 2, d)
    ELSE IF g.ball.z < -TABLE_HALF_DEPTH - 1500 THEN award_point(g, 1, d)
    ELSE IF check_out_of_bounds(g.ball)
    THEN (IF g.ball.vz > 0 THEN award_point(g, 1, d) ELSE award_point(g, 2, d))
    ELSE g

\* Scoring with the side-out / fell-below point given to the other player
Scoring_oob_reversed(g, d) ==
    IF g.ball.z > TABLE_HALF_DEPTH + 1500 THEN award_point(g, 1, d)
    ELSE IF g.ball.z < -TABLE_HALF_DEPTH - 1500 THEN award_point(g, 2, d)
    ELSE IF check_out_of_bounds(g.ball)
    THEN (IF g.ball.vz > 0 THEN award_point(g, 2, d) ELSE award_point(g, 1, d))
    ELSE g

\* Game.update, "Check if ball went out": the if / elif / elif chain
Scoring(g, d) ==
    IF g.ball.z > TABLE_HALF_DEPTH + 1500 THEN award_point(g, 1, d)
    ELSE IF g.ball.z < -TABLE_HALF_DEPTH - 1500 THEN award_point(g, 2, d)
    ELSE IF check_out_of_bounds(g.ball)
    THEN (IF g.ball.vz > 0 THEN award_point(g, 1, d) ELSE award_point(g, 2, d))
    ELSE g

\* Game.update, "Limit ball speed", on the ball b
LimitSpeed(b) ==
    LET sq == b.vx * b.vx + b.vz * b.vz
    IN IF sq > MAX_SPEED * MAX_SPEED
       THEN LET speed == ISqrt(sq)
            IN [b EXCEPT !.vx = DivT(b.vx * MAX_SPEED, speed),
                         !.vz = DivT(b.vz * MAX_SPEED, speed)]
       ELSE b

\* Game.update, "Limit ball speed", on the game g
Limited(g) == [g EXCEPT !.ball = LimitSpeed(g.ball)]

\* the early return of Game.update without the waiting_for_serve test
UpdateRuns_while_waiting(g) == ~(g.paused \/ g.game_over)

\* the early return of Game.update taken always
UpdateRuns_never(g) == FALSE

\* the early return of Game.update
UpdateRuns(g) == ~(g.paused \/ g.game_over \/ g.waiting_for_serve)

\* Game.update(dt) with the paddles at x1, x2
Game_update(g, x1, x2, dt, d) ==
    IF ~UpdateRuns(g) THEN g
    ELSE Limited(Scoring([g EXCEPT !.ball = Collide(g.ball, x1, x2, dt)], d))

----------------------------------------------------------------------------
(* Initial state: Game.__init__ (Paddle.__init__, Ball.__init__).          *)

\* tk when the last operation was no tick, or a tick whose update returned early
Idle == [ran |-> FALSE, dt |-> 0, far |-> FALSE, near |-> FALSE, side |-> FALSE,
         floor |-> FALSE, toward1 |-> FALSE, toward2 |-> FALSE, bounced |-> FALSE, dbl |-> 0,
         hit1 |-> FALSE, hit2 |-> FALSE, award |-> 0]

Init ==
    /\ score_p1 = 0 /\ score_p2 = 0 /\ total_points = 0
    /\ current_server = 1
    /\ game_over = FALSE /\ winner = "None"
    /\ paused = FALSE /\ waiting_for_serve = TRUE
    /\ \E d \in ServeDraws : ball = Ball_reset(1, d)
    /\ p1x = 0 /\ p2x = 0
    /\ hits = 0 /\ half = <<0, 0>>
    /\ ev = "init" /\ tk = Idle

\* the program variables take the fields of g
Becomes(g) ==
    /\ score_p1' = g.score_p1 /\ score_p2' = g.score_p2
    /\ total_points' = g.total_points
    /\ current_server' = g.current_server
    /\ game_over' = g.game_over /\ winner' = g.winner
    /\ paused' = g.paused /\ waiting_for_serve' = g.waiting_for_serve
    /\ ball' = g.ball

----------------------------------------------------------------------------
(* Operations.                                                             *)

\* What a tick in which update ran leaves in tk: where the ball was after the
\* collision step (cb), what it touched, and the point awarded
TkOf(dt, cb, bnc, hb, h1, h2, aw) ==
    [ran |-> TRUE, dt |-> dt,
     far |-> cb.z > 9500, near |-> cb.z < -9500,
     side |-> (cb.x > 7000 \/ cb.x < -7000),
     floor |-> cb.y < -5000,
     toward1 |-> cb.vz < 0, toward2 |-> cb.vz > 0,
     bounced |-> bnc,
     dbl |-> (IF bnc /\ hb[1] >= 2 THEN 1 ELSE IF bnc /\ hb[2] >= 2 THEN 2 ELSE 0),
     hit1 |-> h1, hit2 |-> h2, award |-> aw]

\* The tick, given the paddles after handle_input (x1, x2), the ball after
\* Ball.update (b1), after bounce_table (b2), after player 1's bounce_paddle
\* (b3) and after player 2's (cb), and the game after update with the draw
\* FirstDraw (g0).  The random numbers of Ball.reset are drawn only when the
\* update awards a point that does not end the match.
TickFrom(dt, x1, x2, b1, b2, b3, cb, g0) ==
    LET runs == UpdateRuns(Game)
        bnc  == TableBounces(b1)
        h1   == PaddleHits(b2, -PADDLE_Z_OFFSET, x1)
        h2   == PaddleHits(b3, PADDLE_Z_OFFSET, x2)
        nh   == (IF h1 THEN 1 ELSE 0) + (IF h2 THEN 1 ELSE 0)
        \* consecutive bounces per half after this tick's bounce
        hb   == IF ~bnc THEN half
                ELSE IF b1.z < 0 THEN <<half[1] + 1, 0>>
                ELSE IF b1.z > 0 THEN <<0, half[2] + 1>>
                ELSE <<0, 0>>
        aw   == IF g0.score_p1 # score_p1 THEN 1
                ELSE IF g0.score_p2 # score_p2 THEN 2 ELSE 0
        \* Ball.reset was called
        rst  == g0.total_points # total_points /\ ~g0.game_over
    IN /\ \E d \in (IF rst THEN ServeDraws ELSE {FirstDraw}) :
          \E g \in {IF d = FirstDraw THEN g0
                     ELSE Limited(Scoring([Game EXCEPT !.ball = cb], d))} :
             Becomes(g)
       /\ p1x' = x1 /\ p2x' = x2
       /\ ev' = "tick"
       /\ IF runs
          THEN /\ hits' = (IF rst THEN 0 ELSE hits + nh)
               /\ half' = (IF nh > 0 \/ rst THEN <<0, 0>> ELSE hb)
               /\ tk' = TkOf(dt, cb, bnc, hb, h1, h2, aw)
          ELSE /\ hits' = hits /\ half' = half
               /\ tk' = Idle

\* One iteration of Game.run without key events: handle_input(dt), then
\* update(dt).  k1, k2 are the keys held.
Tick(dt, k1, k2) ==
    LET x1 == handle_input(Game, p1x, k1, dt)
        x2 == handle_input(Game, p2x, k2, dt)
        b1 == Ball_update(ball, dt)
        b2 == bounce_table(b1)
        b3 == bounce_paddle(b2, -PADDLE_Z_OFFSET, x1)
        cb == bounce_paddle(b3, PADDLE_Z_OFFSET, x2)
    IN TickFrom(dt, x1, x2, b1, b2, b3, cb, Game_update(Game, x1, x2, dt, FirstDraw))

\* Game.run, KEYDOWN K_SPACE
Serve ==
    /\ Becomes(serve_key(Game))
    /\ ev' = "serve" /\ tk' = Idle
    /\ UNCHANGED <<p1x, p2x, hits, half>>

\* Game.run, KEYDOWN K_r; d is the random draw of Ball.reset
ResetMatch(d) ==
    /\ Becomes(reset_match(Game, d))
    /\ ev' = "reset" /\ tk' = Idle
    /\ hits' = 0 /\ half' = <<0, 0>>
    /\ UNCHANGED <<p1x, p2x>>

\* Game.run, KEYDOWN K_p
TogglePause ==
    /\ Becomes(toggle_pause(Game))
    /\ ev' = "pause" /\ tk' = Idle
    /\ UNCHANGED <<p1x, p2x, hits, half>>

----------------------------------------------------------------------------
(* Specifications.                                                         *)

\* Spec: every dt of DtSet, both players' keys; matches of at most MaxTotal points
Next ==
    \/ \E dt \in DtSet, k1 \in Keys, k2 \in Keys :
          Tick(dt, k1, k2) /\ total_points' <= MaxTotal /\ hits' <= MaxHits
    \/ Serve
    \/ \E d \in ServeDraws : ResetMatch(d)
    \/ TogglePause

Spec == Init /\ [][Next]_vars

\* SpecMatch: whole matches of at most MaxTotalMatch points, player 2 holding no key
NextMatch ==
    \/ \E dt \in DtSet, k1 \in Keys :
          Tick(dt, k1, 0) /\ total_points' <= MaxTotalMatch /\ hits' <= MaxHits
    \/ Serve
    \/ \E d \in ServeDraws : ResetMatch(d)
    \/ TogglePause

SpecMatch == Init /\ [][NextMatch]_vars

\* SpecRally: long rallies at 20 frames per second, nobody holding a key
NextRally ==
    \/ \E dt \in DtRally :
          Tick(dt, 0, 0) /\ total_points' <= MaxTotal /\ hits' <= MaxHitsRally
    \/ Serve
    \/ \E d \in ServeDraws : ResetMatch(d)
    \/ TogglePause

SpecRally == Init /\ [][NextRally]_vars

\* One iteration of Game.run whose clock delivers a positive dt, nobody
\* holding a key: Tick(dt, 0, 0) with each step of update computed once
ForwardTick ==
    \E dt \in DtRally \ {0} :
       \E b1 \in {Ball_update(ball, dt)} :
       \E b2 \in {bounce_table(b1)} :
       \E b3 \in {bounce_paddle(b2, -PADDLE_Z_OFFSET, p1x)} :
       \E cb \in {bounce_paddle(b3, PADDLE_Z_OFFSET, p2x)} :
       \E g1 \in {Scoring([Game EXCEPT !.ball = cb], FirstDraw)} :
       \E g0 \in {IF UpdateRuns(Game) THEN Limited(g1) ELSE Game} :
          /\ TickFrom(dt, p1x, p2x, b1, b2, b3, cb, g0)
          /\ total_points' <= MaxTotal /\ hits' <= MaxHitsRally

\* FairRally: SpecRally where the loop of Game.run keeps iterating, so that an
\* iteration with a positive dt is taken whenever it stays possible
FairRally == Init /\ [][NextRally]_vars /\ WF_vars(ForwardTick)

\* SpecChase: 20 frames per second, player 2 moving the paddle near the centre
NextChase ==
    \/ \E dt \in DtRally, k2 \in Keys :
          Tick(dt, 0, k2) /\ total_points' <= MaxTotal /\ hits' <= MaxHits
             /\ Abs(p2x') <= MaxReach
    \/ Serve
    \/ \E d \in ServeDraws : ResetMatch(d)
    \/ TogglePause

SpecChase == Init /\ [][NextChase]_vars

----------------------------------------------------------------------------
(* Properties.                                                             *)

\* the match phase
Phase ==
    IF game_over THEN "MatchOver"
    ELSE IF waiting_for_serve THEN "AwaitingServe"
    ELSE "InPlay"

\* the program's variables (all but the history variables)
progVars == <<score_p1, score_p2, total_points, current_server, game_over, winner,
              paused, waiting_for_serve, ball, p1x, p2x>>

\* player a, with score a against b, has won
Won(a, b) == a >= POINTS_TO_WIN /\ a - b >= WIN_BY

\* C1: the match is over exactly when a player has at least POINTS_TO_WIN
\* points and leads by at least WIN_BY, and the winner is that player; at
\* (11,9) the match is over, at (11,10) it is not.
C1_OverIffWon ==
    /\ game_over <=> (Won(score_p1, score_p2) \/ Won(score_p2, score_p1))
    /\ Won(score_p1, score_p2) => winner = "Player 1 (Red)"
    /\ Won(score_p2, score_p1) => winner = "Player 2 (Blue)"
    /\ (score_p1 = 11 /\ score_p2 = 9) => game_over
    /\ (score_p1 = 11 /\ score_p2 = 10) => ~game_over

\* a tick has just awarded player 1 the point that makes it (11,9)
C1_Witness ==
    /\ ev = "tick" /\ tk.award = 1
    /\ score_p1 = 11 /\ score_p2 = 9
    /\ game_over /\ winner = "Player 1 (Red)"

\* the server the serve-alternation rule gives for the cumulative points
RuleServer ==
    IF score_p1 >= 10 /\ score_p2 >= 10
    THEN (IF total_points % 2 = 0 THEN 1 ELSE 2)
    ELSE (IF (total_points \div 2) % 2 = 0 THEN 1 ELSE 2)

\* C2 as stated: in every reachable state, MatchOver included, current_server
\* is the server the serve-alternation rule gives for the cumulative points.
C2_ServerByRuleAlways == current_server = RuleServer

\* C2 as amended: in every reachable state in which the match is not over,
\* current_server is the server the serve-alternation rule gives.
C2_ServerByRuleWhileNotOver == ~game_over => current_server = RuleServer

\* a tick has just awarded the point that makes it (11,10): the deuce rule
\* gives player 2, the two-point rule would give player 1
C2_Witness ==
    /\ ev = "tick" /\ tk.award # 0
    /\ score_p1 = 11 /\ score_p2 = 10
    /\ ~game_over /\ current_server = 2

\* a step that awards a point
Awarded == total_points' = total_points + 1

\* both scores have reached the deuce threshold
BothAtDeuce == score_p1 >= 10 /\ score_p2 >= 10

\* C3 as stated: at (0,0) the server is player 1; after the first two points
\* it is player 2; while not both scores have reached DEUCE_POINT the server
\* changes after every second point and only then; once both have, the server
\* changes with every further non-final point.
C3_AlternationEveryPoint ==
    /\ (total_points = 0 => current_server = 1)
    /\ [][/\ total_points' = 0 => current_server' = 1
          /\ total_points' = 2 => current_server' = 2
          /\ (Awarded /\ ~BothAtDeuce)
                => ((current_server' # current_server) <=> (total_points' % 2 = 0))
          /\ (Awarded /\ BothAtDeuce /\ ~game_over')
                => current_server' # current_server]_vars

\* C3 as amended: the same, where both alternation clauses are about
\* non-final points (the point that ends the match leaves the server as it is).
C3_Alternation ==
    /\ (total_points = 0 => current_server = 1)
    /\ [][/\ total_points' = 0 => current_server' = 1
          /\ total_points' = 2 => current_server' = 2
          /\ (Awarded /\ ~BothAtDeuce /\ ~game_over')
                => ((current_server' # current_server) <=> (total_points' % 2 = 0))
          /\ (Awarded /\ BothAtDeuce /\ ~game_over')
                => current_server' # current_server
          /\ (Awarded /\ game_over') => current_server' = current_server]_vars

\* a tick has just awarded a non-final point with both players past the deuce
\* threshold
C3_Witness ==
    /\ ev = "tick" /\ tk.award # 0
    /\ score_p1 >= 11 /\ score_p2 >= 11
    /\ ~game_over

\* C4 as stated: AwaitingServe to InPlay only by a serve trigger; InPlay to
\* AwaitingServe or MatchOver only by a point awarded in a tick; MatchOver is
\* left only by reset_match, to AwaitingServe; a serve trigger in InPlay or
\* MatchOver changes nothing.
C4_PhaseStepsAsStated ==
    [][/\ (Phase = "AwaitingServe" /\ Phase' = "InPlay") => ev' = "serve"
       /\ Phase = "AwaitingServe" => Phase' # "MatchOver"
       /\ (Phase = "InPlay" /\ Phase' # "InPlay")
             => (ev' = "tick" /\ tk'.award # 0)
       /\ (Phase = "MatchOver" /\ Phase' # "MatchOver")
             => (ev' = "reset" /\ Phase' = "AwaitingServe")
       /\ (ev' = "serve" /\ Phase # "AwaitingServe") => UNCHANGED progVars]_vars

\* C4 as amended: the same, where InPlay is also left by reset_match, which
\* leads to AwaitingServe.
C4_PhaseSteps ==
    [][/\ (Phase = "AwaitingServe" /\ Phase' = "InPlay") => ev' = "serve"
       /\ Phase = "AwaitingServe" => Phase' # "MatchOver"
       /\ (Phase = "InPlay" /\ Phase' # "InPlay")
             => \/ ev' = "tick" /\ tk'.award # 0
                \/ ev' = "reset" /\ Phase' = "AwaitingServe"
       /\ (Phase = "MatchOver" /\ Phase' # "MatchOver")
             => (ev' = "reset" /\ Phase' = "AwaitingServe")
       /\ (ev' = "serve" /\ Phase # "AwaitingServe") => UNCHANGED progVars]_vars

\* a serve trigger has acted on a match that is over
C4_Witness == ev = "serve" /\ game_over

\* C5: a tick in AwaitingServe or MatchOver leaves the ball, both scores and
\* the server unchanged; in AwaitingServe nothing but the paddles' positions
\* changes.
C5_FrozenOutsidePlay ==
    [][(ev' = "tick" /\ Phase # "InPlay")
          => /\ ball' = ball
             /\ score_p1' = score_p1 /\ score_p2' = score_p2
             /\ current_server' = current_server
             /\ Phase = "AwaitingServe"
                   => UNCHANGED <<total_points, game_over, winner, paused,
                                  waiting_for_serve>>]_vars

\* a tick has acted while the second serve was awaited, and player 1's paddle
\* is away from the centre
C5_Witness ==
    /\ ev = "tick" /\ ~tk.ran
    /\ waiting_for_serve /\ ~game_over /\ ~paused
    /\ total_points = 1 /\ p1x # 0

\* the state reset_match leaves: the match fields and the ball at the serve
\* position (the ball's velocity is drawn at random)
MatchState ==
    <<score_p1, score_p2, total_points, current_server, game_over, winner,
      paused, waiting_for_serve, ball.x, ball.y, ball.z, ball.spin_x, ball.spin_z,
      ball.table_bounces>>

\* C6: reset_match yields scores (0,0), total points 0, server player 1, no
\* winner, phase AwaitingServe, not paused and a ball with bounce counter 0 at
\* the serve position; a second reset_match leaves that match state as it is.
C6_Reset ==
    [][ev' = "reset"
          => /\ score_p1' = 0 /\ score_p2' = 0 /\ total_points' = 0
             /\ current_server' = 1 /\ winner' = "None"
             /\ Phase' = "AwaitingServe" /\ ~paused'
             /\ ball'.table_bounces = 0
             /\ ball'.x = 0 /\ ball'.y = NET_HEIGHT + 1000 /\ ball'.z = 0
             /\ ev = "reset" => MatchState' = MatchState]_vars

\* reset_match has acted after player 1's paddle had moved
C6_Witness ==
    /\ ev = "reset" /\ p1x # 0
    /\ score_p1 = 0 /\ score_p2 = 0 /\ waiting_for_serve /\ ~paused

\* C7: a tick raises the sum of the scores by 0 or 1, and by exactly 1 when the
\* ball ends the collision step beyond either end of the play axis.
C7_OnePointPerTick ==
    [][ev' = "tick"
          => /\ score_p1' + score_p2' - (score_p1 + score_p2) \in {0, 1}
             /\ (tk'.ran /\ (tk'.far \/ tk'.near))
                   => score_p1' + score_p2' = score_p1 + score_p2 + 1]_vars

\* a tick in which the ball was beyond the far end and below the floor limit
\* or beyond the lateral limit, with the scores summing to 1 after it
C7_Witness ==
    /\ ev = "tick" /\ tk.ran
    /\ tk.far /\ (tk.floor \/ tk.side)
    /\ score_p1 + score_p2 = 1

\* C8 as stated: the second of two consecutive table bounces on one player's
\* half, with no paddle hit in between, awards the point to the other player.
C8_DoubleBounceScores ==
    ev = "tick" => /\ tk.dbl = 1 => tk.award = 2
                   /\ tk.dbl = 2 => tk.award = 1

\* C9: a ball beyond the far end (player 2's side) after the collision step
\* gives player 1 the point, a ball beyond the near end gives player 2 the
\* point, whatever the side-out and fell-below checks say.
C9_EndOut ==
    [][(ev' = "tick" /\ tk'.ran)
          => /\ tk'.far => (score_p1' = score_p1 + 1 /\ score_p2' = score_p2)
             /\ tk'.near => (score_p2' = score_p2 + 1 /\ score_p1' = score_p1)]_vars

\* a tick in which the ball was beyond the near end and below the floor limit,
\* and player 2 got the point
C9_Witness ==
    /\ ev = "tick" /\ tk.ran
    /\ tk.near /\ tk.floor
    /\ tk.award = 2

\* C10: a ball within the play-axis length but beyond the lateral limit or
\* below the floor limit gives the point to player 1 when it travels toward
\* player 2 and to player 2 when it travels toward player 1.
C10_SideOrFloorOut ==
    [][(ev' = "tick" /\ tk'.ran /\ ~tk'.far /\ ~tk'.near /\ (tk'.side \/ tk'.floor))
          => /\ tk'.toward2 => (score_p1' = score_p1 + 1 /\ score_p2' = score_p2)
             /\ tk'.toward1 => (score_p2' = score_p2 + 1 /\ score_p1' = score_p1)]_vars

\* a tick in which the ball, travelling toward player 1, was beyond the
\* lateral limit within the play-axis length, and player 2 got the point
C10_Witness ==
    /\ ev = "tick" /\ tk.ran
    /\ ~tk.far /\ ~tk.near /\ tk.side
    /\ tk.toward1 /\ tk.award = 2

\* C11 as stated: after every tick in which update ran, the magnitude of the
\* ball's velocity vector (vx, vy, vz) does not exceed MAX_SPEED.
C11_SpeedWithinMax ==
    (ev = "tick" /\ tk.ran)
       => ball.vx * ball.vx + ball.vy * ball.vy + ball.vz * ball.vz
             <= MAX_SPEED * MAX_SPEED

\* C12 as stated: in every reachable state, a tick with dt = 0 (handle_input, then
\* update), whatever keys are held, leaves the ball and both paddles'
\* positions as they are.
C12_ZeroDtTick ==
    \A k1 \in Keys, k2 \in Keys :
       /\ handle_input(Game, p1x, k1, 0) = p1x
       /\ handle_input(Game, p2x, k2, 0) = p2x
       /\ Game_update(Game, p1x, p2x, 0, FirstDraw).ball = ball

\* C13 as stated: dt is capped at 100 ms, so a tick in which the ball touches
\* nothing moves it along the play axis by no more than its speed allows in
\* 100 ms, and changes its vertical velocity by no more than gravity does in
\* 100 ms.
C13_DtCapped ==
    [][(ev' = "tick" /\ tk'.ran /\ tk'.award = 0
           /\ ~tk'.bounced /\ ~tk'.hit1 /\ ~tk'.hit2)
          => /\ Abs(ball'.z - ball.z) <= DivT(Abs(ball.vz) * 100, 1000)
             /\ Abs(ball'.vy - ball.vy) <= DivT(Abs(GRAVITY) * 100, 1000)]_vars

\* the legal range of a paddle's x
PaddleLimit == TABLE_HALF_WIDTH - PADDLE_WIDTH \div 2 - 200

\* C14: both paddles' x are within the legal range, which is within the
\* table's half-width; from every reachable position, move_horizontal with
\* either direction and any dt yields a position within the range, on the
\* limit when the move would leave the range and the moved position otherwise.
C14_PaddleWithinRange ==
    /\ PaddleLimit <= TABLE_HALF_WIDTH
    /\ Abs(p1x) <= PaddleLimit /\ Abs(p2x) <= PaddleLimit
    /\ \A x \in {p1x, p2x}, dx \in {-1, 1}, dt \in DtSet \cup DtRally :
          LET moved == x + DivT(dx * PADDLE_SPEED * dt, 1000)
              r     == move_horizontal(x, dx, dt)
          IN /\ Abs(r) <= PaddleLimit
             /\ moved > PaddleLimit => r = PaddleLimit
             /\ moved < -PaddleLimit => r = -PaddleLimit
             /\ Abs(moved) <= PaddleLimit => r = moved

\* a tick has left the two paddles on opposite limits
C14_Witness ==
    /\ ev = "tick"
    /\ p1x = PaddleLimit /\ p2x = -PaddleLimit

\* C15: for the ball after Ball.update in a tick of any dt, bounce_table
\* bounces exactly when y < TABLE_HEIGHT + BALL_RADIUS, vy < 0,
\* |x| < TABLE_HALF_WIDTH and |z| < TABLE_HALF_DEPTH; a bounce puts y on the
\* surface threshold, makes vy positive and smaller in magnitude, and adds one
\* to the bounce counter; otherwise the ball is left as it is.
C15_TableBounce ==
    \A dt \in DtSet \cup DtRally :
       LET b == Ball_update(ball, dt)
           r == bounce_table(b)
       IN IF /\ b.y < TABLE_HEIGHT + BALL_RADIUS /\ b.vy < 0
             /\ Abs(b.x) < TABLE_HALF_WIDTH /\ Abs(b.z) < TABLE_HALF_DEPTH
          THEN /\ r.y = TABLE_HEIGHT + BALL_RADIUS
               /\ r.vy > 0 /\ r.vy < -b.vy
               /\ r.table_bounces = b.table_bounces + 1
          ELSE r = b

\* a tick in which the ball bounced on the table for the first time since the
\* serve and touched nothing else
C15_Witness ==
    /\ ev = "tick" /\ tk.ran /\ tk.bounced
    /\ ~tk.hit1 /\ ~tk.hit2 /\ tk.award = 0
    /\ ball.y = TABLE_HEIGHT + BALL_RADIUS /\ ball.vy > 0
    /\ ball.table_bounces = 1

\* the three conditions of a paddle hit, for the ball b and the paddle of
\* player pl with its centre at px
Overlaps(b, pl, px) ==
    /\ Abs(b.x - px) <= PADDLE_WIDTH \div 2 + BALL_RADIUS
    /\ Abs(b.y - PADDLE_HEIGHT \div 2) <= PADDLE_HEIGHT \div 2 + BALL_RADIUS
    /\ IF pl = 1
       THEN b.vz < 0 /\ b.z - BALL_RADIUS <= -PADDLE_Z_OFFSET + PADDLE_DEPTH \div 2
       ELSE b.vz > 0 /\ b.z + BALL_RADIUS >= PADDLE_Z_OFFSET - PADDLE_DEPTH \div 2

\* C16: in the collision step of a tick of any dt with any keys held,
\* bounce_paddle changes the ball only when the horizontal offset, the vertical
\* offset and the reached-the-face-while-moving-toward-it conditions hold
\* together; a ball moving away from a paddle is left as it is by that paddle.
C16_HitOnlyOnOverlap ==
    \A dt \in DtSet \cup DtRally, k1 \in Keys, k2 \in Keys :
       LET x1 == handle_input(Game, p1x, k1, dt)
           x2 == handle_input(Game, p2x, k2, dt)
           b2 == bounce_table(Ball_update(ball, dt))
           b3 == bounce_paddle(b2, -PADDLE_Z_OFFSET, x1)
           cb == bounce_paddle(b3, PADDLE_Z_OFFSET, x2)
       IN /\ b3 # b2 => Overlaps(b2, 1, x1)
          /\ cb # b3 => Overlaps(b3, 2, x2)
          /\ b2.vz > 0 => b3 = b2
          /\ b3.vz < 0 => cb = b3

\* a tick in which player 2's paddle hit the ball and player 1's did not
C16_Witness ==
    /\ ev = "tick" /\ tk.ran
    /\ tk.hit2 /\ ~tk.hit1 /\ tk.award = 0
    /\ ball.vz < 0 /\ ball.z = PADDLE_Z_OFFSET - PADDLE_DEPTH \div 2 - BALL_RADIUS - 10

\* what a hit by player pl's paddle makes of the ball b, as r: r is strictly
\* outside the paddle's face on the table side, vz has changed sign and grown,
\* and the bounce counter is zero
HitDone(b, r, pl) ==
    /\ IF pl = 1
       THEN r.z - BALL_RADIUS > -PADDLE_Z_OFFSET + PADDLE_DEPTH \div 2
       ELSE r.z + BALL_RADIUS < PADDLE_Z_OFFSET - PADDLE_DEPTH \div 2
    /\ (b.vz > 0) # (r.vz > 0) /\ (b.vz < 0) # (r.vz < 0)
    /\ Abs(r.vz) > Abs(b.vz)
    /\ r.table_bounces = 0

\* the magnitude of the velocity of b is at most MAX_SPEED
WithinMax(b) == b.vx * b.vx + b.vy * b.vy + b.vz * b.vz <= MAX_SPEED * MAX_SPEED

\* C17 as stated: in a tick of any dt in which a paddle hits the ball, the hit
\* puts the ball strictly outside the paddle's face, turns vz round with a
\* greater magnitude and sets the bounce counter to zero, and the speed at the
\* end of the tick is at most MAX_SPEED.
C17_HitEffects ==
    \A dt \in DtSet \cup DtRally :
       LET b2 == bounce_table(Ball_update(ball, dt))
           b3 == bounce_paddle(b2, -PADDLE_Z_OFFSET, p1x)
           cb == bounce_paddle(b3, PADDLE_Z_OFFSET, p2x)
       IN /\ PaddleHits(b2, -PADDLE_Z_OFFSET, p1x)
                => HitDone(b2, b3, 1) /\ WithinMax(LimitSpeed(cb))
          /\ PaddleHits(b3, PADDLE_Z_OFFSET, p2x)
                => HitDone(b3, cb, 2) /\ WithinMax(LimitSpeed(cb))

\* the sign of a
Sign(a) == IF a > 0 THEN 1 ELSE IF a < 0 THEN -1 ELSE 0

BallAtServe ==
    /\ ball.x = 0 /\ ball.y = NET_HEIGHT + 1000 /\ ball.z = 0
    /\ ball.spin_x = 0 /\ ball.spin_z = 0
    /\ ball.table_bounces = 0

\* C19 as stated: after a tick that awarded a point, the point that ends the
\* match included, the ball is at the serve position with no spin and bounce
\* counter zero.
C19_BallResetOnEveryPoint ==
    (ev = "tick" /\ tk.award # 0) => BallAtServe

\* C19 as amended: after a tick that awarded a point that does not end the
\* match, the ball is at the serve position with no spin and bounce counter
\* zero; the point that ends the match leaves the ball away from the serve
\* position.
C19_BallResetOnNonFinalPoint ==
    (ev = "tick" /\ tk.award # 0)
       => IF game_over THEN ~BallAtServe ELSE BallAtServe

\* a tick has awarded player 2 the point that makes it (10,11), and the ball
\* is back at the serve position
C19_Witness ==
    /\ ev = "tick" /\ tk.award = 2
    /\ score_p1 = 10 /\ score_p2 = 11 /\ ~game_over
    /\ BallAtServe /\ tk.ran /\ (tk.far \/ tk.near \/ tk.side \/ tk.floor)

C21_Pause ==
    [][/\ (paused /\ ev' \in {"tick", "serve"}) => UNCHANGED progVars
       /\ (ev' = "pause" /\ ~game_over)
             => /\ paused' = ~paused
                /\ UNCHANGED <<score_p1, score_p2, total_points, current_server,
                               game_over, winner, waiting_for_serve, ball, p1x, p2x>>
       /\ (ev' = "pause" /\ game_over) => UNCHANGED progVars
       /\ ev' = "reset" => ~paused']_vars

\* P has just resumed a rally in which a paddle had hit the ball, with player
\* 1's paddle away from the centre
C21_Witness ==
    /\ ev = "pause" /\ ~paused
    /\ Phase = "InPlay" /\ hits = 1 /\ p1x # 0

\* C22: total_points is the sum of the scores; no step but reset_match lowers
\* a score; once the match is over, no step but reset_match changes the
\* scores, total_points or the winner.
C22_ScoresOnlyGrow ==
    /\ [](total_points = score_p1 + score_p2)
    /\ [][ev' # "reset"
             => /\ score_p1' >= score_p1 /\ score_p2' >= score_p2
                /\ game_over => UNCHANGED <<score_p1, score_p2, total_points,
                                            winner>>]_vars

\* a tick has acted on a match that player 2 had won
C22_Witness ==
    /\ ev = "tick" /\ ~tk.ran
    /\ game_over /\ winner = "Player 2 (Blue)"
    /\ score_p2 = 11 /\ total_points = score_p1 + 11

\* C23: game_over and waiting_for_serve are never both true, game_over and
\* paused are never both true, and winner is set exactly when game_over is.
C23_FlagsConsistent ==
    /\ ~(game_over /\ waiting_for_serve)
    /\ ~(game_over /\ paused)
    /\ (winner # "None") <=> game_over

\* P has been pressed on a match that is over
C23_Witness ==
    /\ ev = "pause" /\ game_over
    /\ winner = "Player 1 (Red)" /\ ~paused /\ ~waiting_for_serve

\* the final score w : l of the winner and the loser has one of the two shapes
FinalShape(w, l) ==
    \/ w = POINTS_TO_WIN /\ l <= 9
    \/ w > POINTS_TO_WIN /\ w - l = WIN_BY

\* C24: when the match is over the final score has one of the two shapes; no
\* state has a player above 11 leading by more than 2; no state that is not
\* over has a player at 11 or more leading by 2 or more.
C24_FinalScores ==
    /\ game_over => \/ score_p1 > score_p2 /\ FinalShape(score_p1, score_p2)
                    \/ score_p2 > score_p1 /\ FinalShape(score_p2, score_p1)
    /\ ~(score_p1 > 11 /\ score_p1 - score_p2 > 2)
    /\ ~(score_p2 > 11 /\ score_p2 - score_p1 > 2)
    /\ ~game_over => /\ ~(score_p1 >= 11 /\ score_p1 - score_p2 >= 2)
                     /\ ~(score_p2 >= 11 /\ score_p2 - score_p1 >= 2)

\* a tick has ended the match at (10,12)
C24_Witness ==
    /\ ev = "tick" /\ tk.award = 2
    /\ game_over /\ score_p1 = 10 /\ score_p2 = 12

\* C25: no tick has a hit by both paddles; in a rally the odd hits are by the
\* receiver and the even hits by the server, so that consecutive hits are by
\* different players; vz changes sign in a tick of a rally only when a paddle
\* hits, player 1's paddle turning it positive and player 2's negative.
C25_HitsAlternate ==
    [][(ev' = "tick" /\ tk'.ran /\ tk'.award = 0)
          => /\ ~(tk'.hit1 /\ tk'.hit2)
             /\ tk'.hit1 => /\ (hits' % 2 = 1) <=> (current_server = 2)
                            /\ ball.vz < 0 /\ ball'.vz > 0
             /\ tk'.hit2 => /\ (hits' % 2 = 1) <=> (current_server = 1)
                            /\ ball.vz > 0 /\ ball'.vz < 0
             /\ (~tk'.hit1 /\ ~tk'.hit2) => Sign(ball'.vz) = Sign(ball.vz)]_vars

\* a tick in which player 2's paddle made the fifth hit of a rally served by
\* player 1
C25_Witness ==
    /\ ev = "tick" /\ tk.ran /\ tk.hit2 /\ ~tk.hit1
    /\ hits = 5 /\ current_server = 1 /\ ball.vz < 0

\* C26: from every state in play and not paused (within the bounds of the
\* model), as long as iterations with a positive dt keep coming, the game gets
\* paused, or a paddle hits the ball, or the phase leaves InPlay: with no
\* pause and no further paddle hit the rally ends.
C26_RallyEnds ==
    (Phase = "InPlay" /\ ~paused /\ total_points < MaxTotal /\ hits < MaxHitsRally)
       ~> \/ Phase # "InPlay"
          \/ paused
          \/ ev = "tick" /\ tk.ran /\ (tk.hit1 \/ tk.hit2)

\* a tick with a positive dt has ended, by a ball beyond the lateral limit, a
\* rally in which a paddle had hit the ball
C26_Witness ==
    /\ ev = "tick" /\ tk.ran /\ tk.dt > 0
    /\ tk.side /\ ~tk.hit1 /\ ~tk.hit2 /\ tk.award # 0
    /\ Phase = "AwaitingServe" /\ total_points = 1

====
